---- MODULE Spec2Model ----
(***************************************************************************)
(* Model of the book catalogue browser (src/scripts.js, src/utils.js).     *)
(* Strings that are searched are sequences of one-character strings, so    *)
(* trim, toLowerCase and includes are computed, not assumed.  The open     *)
(* flags of the search and settings dialogs, and the five listeners that   *)
(* only set them, are left out: no handler reads them.                     *)
(***************************************************************************)
EXTENDS Integers, Sequences, FiniteSets, TLC

VARIABLES
    books,          \* this.books
    booksPerPage,   \* this.booksPerPage
    page,           \* this.page
    matches,        \* this.matches
    listItems,      \* children of [data-list-items]: the displayed cards
    button,         \* [data-list-button]: disabled flag and the count shown
    messageShow,    \* [data-list-message] carries class list__message_show
    active,         \* [data-list-active]: open flag and the preview contents
    theme,          \* [data-settings-theme].value and the two css colours
    genreOptions,   \* options of [data-search-genres]
    authorOptions,  \* options of [data-search-authors]
    listeners,      \* handlers registered per target, in registration order
    pc,             \* position of the top-level script
    pending,        \* handlers of the dispatched event still to run
    event,          \* the event being (or last) dispatched
    before,         \* page and displayed list at the moment of dispatch
    call,           \* direct call of a utils.js function: its arguments
    ret             \* direct call of a utils.js function: its result

vars == <<books, booksPerPage, page, matches, listItems, button, messageShow,
          active, theme, genreOptions, authorOptions, listeners, pc, pending, event, before,
          call, ret>>

session == <<books, booksPerPage, page, matches>>
dom == <<listItems, button, messageShow, active, theme, genreOptions, authorOptions>>

\* ---------------------------------------------------------------- bounds
MaxPerPage == 2

\* ------------------------------------------------------------------ data
\* registries, in Object.entries order
authors == << [id |-> "a1", name |-> "Ann"], [id |-> "a2", name |-> "Bob"] >>
genres == << [id |-> "sf", name |-> "SciFi"], [id |-> "fantasy", name |-> "Fantasy"] >>

\* authors[author]
AuthorName(a) ==
    IF \E i \in 1..Len(authors) : authors[i].id = a
    THEN (CHOOSE e \in {authors[i] : i \in 1..Len(authors)} : e.id = a).name
    ELSE "undefined"

\* book records the dataset may hold; the first and the third share an id
Catalog ==
    { [id |-> "1", title |-> <<"D", "u">>, author |-> "a1", genres |-> <<"sf">>],
      [id |-> "2", title |-> <<"u", " ", "d">>, author |-> "a2", genres |-> <<"fantasy", "sf">>],
      [id |-> "1", title |-> <<"d">>, author |-> "a2", genres |-> <<>>] }

\* the datasets: any of the records, each at most once, in any order
BookLists ==
    { bs \in UNION { [1..n -> Catalog] : n \in 0..Cardinality(Catalog) } :
        \A i, j \in 1..Len(bs) : i # j => bs[i] # bs[j] }

\* values the search form can submit
Titles == { <<>>, <<" ">>, <<"d">>, <<"U">>, <<" ", "d">>, <<"D", "U">> }
AuthorChoices == {"any", "a1", "a2"}
GenreChoices == {"any", "sf", "fantasy"}
Fields == {"title", "author", "genre"}

Restrict(f, S) == [k \in S |-> f[k]]

Filters(S) ==
    { Restrict([title |-> t, author |-> a, genre |-> g], S) :
        t \in Titles, a \in AuthorChoices, g \in GenreChoices }

\* what the search form submits: FormData holds all three fields, the
\* selects offering 'any' and the registries' ids
FormTitles == { <<>>, <<"D">> }
FormFilters ==
    { [title |-> t, author |-> a, genre |-> g] :
        t \in FormTitles, a \in AuthorChoices, g \in GenreChoices }

\* data-preview values a click can resolve to; "" stands for no card in the path
PreviewIds == {"1", "2", "9", ""}
Themes == {"day", "night", "sepia"}

\* ------------------------------------------------------- string helpers
Min(a, b) == IF a < b THEN a ELSE b

\* Array.prototype.slice(start, end) with 0 <= start, end
Slice(s, start, end) == SubSeq(s, start + 1, Min(end, Len(s)))

LowerChar(c) ==
    CASE c = "D" -> "d"
      [] c = "U" -> "u"
      [] OTHER -> c

ToLowerCase(s) == [i \in 1..Len(s) |-> LowerChar(s[i])]

RECURSIVE TrimStart(_)
TrimStart(s) ==
    IF s # <<>> /\ Head(s) = " " THEN TrimStart(Tail(s)) ELSE s

RECURSIVE TrimEnd(_)
TrimEnd(s) ==
    IF s # <<>> /\ s[Len(s)] = " " THEN TrimEnd(SubSeq(s, 1, Len(s) - 1)) ELSE s

Trim(s) == TrimEnd(TrimStart(s))

\* String.prototype.includes
StrIncludes(s, q) ==
    \E i \in 0..(Len(s) - Len(q)) : SubSeq(s, i + 1, i + Len(q)) = q

\* Array.prototype.includes
ArrIncludes(arr, x) == \E i \in 1..Len(arr) : arr[i] = x

Has(f, k) == k \in DOMAIN f

\* ---------------------------------------------------------- utils.js
\* the card built for a book: its data-preview id, title and author name
createBookElement(book) ==
    [preview |-> book.id, title |-> book.title, author |-> AuthorName(book.author)]

Cards(bs) == [i \in 1..Len(bs) |-> createBookElement(bs[i])]

\* the options populateDropdown appends to a container
populateDropdown(container, items, defaultOptionText) ==
    container \o << [value |-> "any", text |-> defaultOptionText] >>
              \o [i \in 1..Len(items) |-> [value |-> items[i].id, text |-> items[i].name]]

\* the button state updateShowMoreButton writes
showMoreButton(matchesLength, p, perPage) ==
    LET remainingBooks == matchesLength - p * perPage
    IN  [disabled |-> remainingBooks <= 0,
         remaining |-> IF remainingBooks > 0 THEN remainingBooks ELSE 0]

\* bookMatches comparing the title as written, without toLowerCase
bookMatchesCaseSensitive(book, filters) ==
    LET genreMatch ==
            Has(filters, "genre")
            /\ (filters.genre = "any" \/ ArrIncludes(book.genres, filters.genre))
        authorMatch ==
            Has(filters, "author")
            /\ (filters.author = "any" \/ book.author = filters.author)
    IN  IF ~Has(filters, "title")
        THEN [threw |-> TRUE, value |-> FALSE]
        ELSE LET titleMatch ==
                     Trim(filters.title) = <<>>
                     \/ StrIncludes(book.title, filters.title)
             IN  [threw |-> FALSE, value |-> genreMatch /\ titleMatch /\ authorMatch]

\* bookMatches without the 'any' case of the genre
bookMatchesNoAny(book, filters) ==
    LET genreMatch ==
            Has(filters, "genre") /\ ArrIncludes(book.genres, filters.genre)
        authorMatch ==
            Has(filters, "author")
            /\ (filters.author = "any" \/ book.author = filters.author)
    IN  IF ~Has(filters, "title")
        THEN [threw |-> TRUE, value |-> FALSE]
        ELSE LET titleMatch ==
                     Trim(filters.title) = <<>>
                     \/ StrIncludes(ToLowerCase(book.title), ToLowerCase(filters.title))
             IN  [threw |-> FALSE, value |-> genreMatch /\ titleMatch /\ authorMatch]

\* the callback of filterBooks on one book: what it returns, or that it
\* threw. The three constants are evaluated in order, and
\* filters.title.trim() throws a TypeError when filters.title is undefined;
\* an undefined genre or author equals neither 'any' nor any book's value.
bookMatches(book, filters) ==
    LET genreMatch ==
            Has(filters, "genre")
            /\ (filters.genre = "any" \/ ArrIncludes(book.genres, filters.genre))
        authorMatch ==
            Has(filters, "author")
            /\ (filters.author = "any" \/ book.author = filters.author)
    IN  IF ~Has(filters, "title")
        THEN [threw |-> TRUE, value |-> FALSE]
        ELSE LET titleMatch ==
                     Trim(filters.title) = <<>>
                     \/ StrIncludes(ToLowerCase(book.title), ToLowerCase(filters.title))
             IN  [threw |-> FALSE, value |-> genreMatch /\ titleMatch /\ authorMatch]

\* books.filter(callback) from index i on: the kept books in order, or the
\* throw of the first callback that throws
RECURSIVE filterFrom(_, _, _, _)
filterFrom(bs, filters, i, acc) ==
    IF i > Len(bs) THEN [threw |-> FALSE, value |-> acc]
    ELSE LET keep == bookMatches(bs[i], filters)
         IN  IF keep.threw THEN [threw |-> TRUE, value |-> <<>>]
             ELSE filterFrom(bs, filters, i + 1,
                             IF keep.value THEN Append(acc, bs[i]) ELSE acc)

Reverse(s) == [i \in 1..Len(s) |-> s[Len(s) + 1 - i]]

\* filterBooks collecting the kept books in front, newest first
filterBooksReversed(bs, filters) ==
    LET r == filterFrom(bs, filters, 1, <<>>)
    IN  [threw |-> r.threw, value |-> Reverse(r.value)]

filterBooks(bs, filters) == filterFrom(bs, filters, 1, <<>>)

\* books.find(book => book.id === id) from index i on: <<book>> for the first
\* such book, <<>> for undefined
RECURSIVE findFrom(_, _, _)
findFrom(bs, id, i) ==
    IF i > Len(bs) THEN <<>>
    ELSE IF bs[i].id = id THEN <<bs[i]>>
    ELSE findFrom(bs, id, i + 1)

\* findBookById returning the last book with the id
findBookByIdLast(bs, id) ==
    LET r == findFrom(Reverse(bs), id, 1) IN r

findBookById(bs, id) == findFrom(bs, id, 1)

\* -------------------------------------------------------- scripts.js
Targets == {"listClose", "settingsForm", "searchForm", "listButton", "listItems"}

IdentityFilters == [title |-> <<>>, author |-> "any", genre |-> "any"]

NoEvent == [target |-> "none", filters |-> IdentityFilters, preview |-> "", theme |-> ""]

Light == [colorDark |-> "10, 10, 20", colorLight |-> "255, 255, 255"]
Dark == [colorDark |-> "255, 255, 255", colorLight |-> "10, 10, 20"]

\* the constructor's assignments (lines 18-23) over the page as loaded; the
\* constructor's call of init() and the script's own call are still to run
Init ==
    /\ books \in BookLists
    /\ booksPerPage \in 1..MaxPerPage
    /\ page = 1
    /\ matches = books
    /\ listItems = <<>>
    /\ button = [disabled |-> FALSE, remaining |-> 0]
    /\ messageShow = FALSE
    /\ active = [open |-> FALSE, book |-> <<>>]
    /\ theme = [value |-> "", css |-> Light]
    /\ genreOptions = <<>>
    /\ authorOptions = <<>>
    /\ listeners = [t \in Targets |-> <<>>]
    /\ pc = "constructor"
    /\ pending = <<>>
    /\ event = NoEvent
    /\ before = [page |-> 1, listItems |-> <<>>]
    /\ call = [fn |-> "none", filters |-> IdentityFilters, id |-> ""]
    /\ ret = [threw |-> FALSE, value |-> <<>>]

\* renderBooks: appends the first page's cards to the list
renderBooks == listItems \o Cards(Slice(matches, 0, booksPerPage))

\* setupTheme, prefersDark being what matchMedia reports
setupTheme(prefersDark) ==
    IF prefersDark THEN [value |-> "night", css |-> Dark]
    ELSE [value |-> "day", css |-> Light]

\* setupEventListeners: one more listener on every target
setupEventListeners ==
    [t \in Targets |->
        Append(listeners[t],
               CASE t = "listClose" -> "closePreview"
                 [] t = "settingsForm" -> "handleThemeChange"
                 [] t = "searchForm" -> "handleSearch"
                 [] t = "listButton" -> "showMoreBooks"
                 [] t = "listItems" -> "showBookPreview")]

\* init(): called by the constructor (line 25) and again by the script (line 214)
init ==
    /\ pc \in {"constructor", "script"}
    /\ pc' = IF pc = "constructor" THEN "script" ELSE "idle"
    /\ listItems' = renderBooks
    /\ genreOptions' = populateDropdown(genreOptions, genres, "All Genres")
    /\ authorOptions' = populateDropdown(authorOptions, authors, "All Authors")
    /\ \E prefersDark \in BOOLEAN : theme' = setupTheme(prefersDark)
    /\ listeners' = setupEventListeners
    /\ button' = showMoreButton(Len(matches), page, booksPerPage)
    /\ UNCHANGED <<session, messageShow, active, pending, event, before, call, ret>>

\* the host dispatches one user event: every listener registered on the
\* target runs, in registration order, before the next event is dispatched
Dispatch(e) ==
    /\ pc = "idle"
    /\ event = NoEvent
    /\ pending' = listeners[e.target]
    /\ event' = e
    /\ before' = [page |-> page, listItems |-> listItems]
    /\ UNCHANGED <<session, dom, listeners, pc, call, ret>>

SearchSubmitted ==
    \E f \in FormFilters : Dispatch([NoEvent EXCEPT !.target = "searchForm", !.filters = f])

\* a disabled button receives no click
ShowMoreClicked ==
    /\ ~button.disabled
    /\ Dispatch([NoEvent EXCEPT !.target = "listButton"])

CardClicked ==
    \E id \in PreviewIds : Dispatch([NoEvent EXCEPT !.target = "listItems", !.preview = id])

ThemeSubmitted ==
    \E t \in Themes : Dispatch([NoEvent EXCEPT !.target = "settingsForm", !.theme = t])

ListCloseClicked == Dispatch([NoEvent EXCEPT !.target = "listClose"])

\* the last listener has returned: the event is over
Dispatched ==
    /\ event # NoEvent
    /\ pending = <<>>
    /\ event' = NoEvent
    /\ before' = [page |-> 1, listItems |-> <<>>]
    /\ UNCHANGED <<session, dom, listeners, pc, pending, call, ret>>

Running(h) ==
    /\ pending # <<>>
    /\ Head(pending) = h
    /\ pending' = Tail(pending)
    /\ UNCHANGED <<listeners, pc, event, before, call, ret>>

\* handleThemeChange rendering the first page again after the theme is set
handleThemeChangeRendersAgain ==
    /\ Running("handleThemeChange")
    /\ theme' = [theme EXCEPT !.css = IF event.theme = "night" THEN Dark ELSE Light]
    /\ listItems' = renderBooks
    /\ UNCHANGED <<session, button, messageShow, active, genreOptions, authorOptions>>

handleThemeChange ==
    /\ Running("handleThemeChange")
    /\ theme' = [theme EXCEPT !.css = IF event.theme = "night" THEN Dark ELSE Light]
    /\ UNCHANGED <<session, listItems, button, messageShow, active,
                   genreOptions, authorOptions>>

\* renderBookList without line 156: the list is not emptied first
renderBookListAppends(bs) == listItems \o Cards(Slice(bs, 0, booksPerPage))

\* renderBookList(books): the list is emptied, then the first page is appended
renderBookList(bs) == Cards(Slice(bs, 0, booksPerPage))

\* handleSearch without line 140: the page is kept
handleSearchKeepsPage ==
    /\ Running("handleSearch")
    /\ LET found == filterBooks(books, event.filters)
       IN  /\ page' = page
           /\ IF found.threw
              THEN UNCHANGED <<matches, messageShow, listItems, button>>
              ELSE /\ matches' = found.value
                   /\ messageShow' = (Len(found.value) < 1)
                   /\ listItems' = renderBookList(found.value)
                   /\ button' = showMoreButton(Len(found.value), page, booksPerPage)
    /\ UNCHANGED <<books, booksPerPage, active, theme, genreOptions, authorOptions>>

\* handleSearch showing the message for fewer than two matches
handleSearchMessageOffByOne ==
    /\ Running("handleSearch")
    /\ LET found == filterBooks(books, event.filters)
       IN  /\ page' = 1
           /\ IF found.threw
              THEN UNCHANGED <<matches, messageShow, listItems, button>>
              ELSE /\ matches' = found.value
                   /\ messageShow' = (Len(found.value) <= 1)
                   /\ listItems' = renderBookList(found.value)
                   /\ button' = showMoreButton(Len(found.value), 1, booksPerPage)
    /\ UNCHANGED <<books, booksPerPage, active, theme, genreOptions, authorOptions>>

\* handleSearch toggling the message class without the force argument
handleSearchTogglesMessage ==
    /\ Running("handleSearch")
    /\ LET found == filterBooks(books, event.filters)
       IN  /\ page' = 1
           /\ IF found.threw
              THEN UNCHANGED <<matches, messageShow, listItems, button>>
              ELSE /\ matches' = found.value
                   /\ messageShow' = ~messageShow
                   /\ listItems' = renderBookList(found.value)
                   /\ button' = showMoreButton(Len(found.value), 1, booksPerPage)
    /\ UNCHANGED <<books, booksPerPage, active, theme, genreOptions, authorOptions>>

handleSearch ==
    /\ Running("handleSearch")
    /\ LET found == filterBooks(books, event.filters)
       IN  /\ page' = 1
           /\ IF found.threw
              THEN UNCHANGED <<matches, messageShow, listItems, button>>
              ELSE /\ matches' = found.value
                   /\ messageShow' = (Len(found.value) < 1)
                   /\ listItems' = renderBookList(found.value)
                   /\ button' = showMoreButton(Len(found.value), 1, booksPerPage)
    /\ UNCHANGED <<books, booksPerPage, active, theme, genreOptions, authorOptions>>

\* showMoreBooks without line 181: the button is not refreshed
showMoreBooksNoRefresh ==
    /\ Running("showMoreBooks")
    /\ listItems' = listItems \o
           Cards(Slice(matches, page * booksPerPage, (page + 1) * booksPerPage))
    /\ page' = page + 1
    /\ UNCHANGED <<books, booksPerPage, matches, button, messageShow, active, theme,
                   genreOptions, authorOptions>>

showMoreBooks ==
    /\ Running("showMoreBooks")
    /\ listItems' = listItems \o
           Cards(Slice(matches, page * booksPerPage, (page + 1) * booksPerPage))
    /\ page' = page + 1
    /\ button' = showMoreButton(Len(matches), page + 1, booksPerPage)
    /\ UNCHANGED <<books, booksPerPage, matches, messageShow, active, theme,
                   genreOptions, authorOptions>>

\* showBookPreview rendering the list again from all books
showBookPreviewRendersAgain ==
    /\ Running("showBookPreview")
    /\ LET found == IF event.preview # "" THEN findBookById(books, event.preview) ELSE <<>>
       IN  active' = IF found # <<>>
                     THEN [open |-> TRUE,
                           book |-> << [title |-> found[1].title,
                                        subtitle |-> AuthorName(found[1].author)] >>]
                     ELSE active
    /\ listItems' = renderBookList(books)
    /\ UNCHANGED <<session, button, messageShow, theme, genreOptions, authorOptions>>

\* showBookPreview opening the dialog before the lookup is tested (line 202
\* moved above line 201)
showBookPreviewOpensFirst ==
    /\ Running("showBookPreview")
    /\ LET found == IF event.preview # "" THEN findBookById(books, event.preview) ELSE <<>>
       IN  active' = IF found # <<>>
                     THEN [open |-> TRUE,
                           book |-> << [title |-> found[1].title,
                                        subtitle |-> AuthorName(found[1].author)] >>]
                     ELSE [active EXCEPT !.open = TRUE]
    /\ UNCHANGED <<session, listItems, button, messageShow, theme,
                   genreOptions, authorOptions>>

showBookPreview ==
    /\ Running("showBookPreview")
    /\ LET found == IF event.preview # "" THEN findBookById(books, event.preview) ELSE <<>>
       IN  active' = IF found # <<>>
                     THEN [open |-> TRUE,
                           book |-> << [title |-> found[1].title,
                                        subtitle |-> AuthorName(found[1].author)] >>]
                     ELSE active
    /\ UNCHANGED <<session, listItems, button, messageShow, theme,
                   genreOptions, authorOptions>>

closePreview ==
    /\ Running("closePreview")
    /\ active' = [active EXCEPT !.open = FALSE]
    /\ UNCHANGED <<session, listItems, button, messageShow, theme,
                   genreOptions, authorOptions>>

Next ==
    \/ init
    \/ SearchSubmitted
    \/ ShowMoreClicked
    \/ CardClicked
    \/ ThemeSubmitted
    \/ ListCloseClicked
    \/ Dispatched
    \/ handleThemeChange
    \/ handleSearch
    \/ showMoreBooks
    \/ showBookPreview
    \/ closePreview

Spec == Init /\ [][Next]_vars

\* ------------------------------------------- utils.js called directly
\* filterBooks(books, filters), the filters object holding any of the fields
CallFilterBooks ==
    /\ call.fn = "none"
    /\ \E S \in SUBSET Fields : \E f \in Filters(S) :
          /\ call' = [fn |-> "filterBooks", filters |-> f, id |-> ""]
          /\ ret' = filterBooks(books, f)
    /\ UNCHANGED <<session, dom, listeners, pc, pending, event, before>>

\* findBookById(books, id)
CallFindBookById ==
    /\ call.fn = "none"
    /\ \E id \in PreviewIds :
          /\ call' = [fn |-> "findBookById", filters |-> IdentityFilters, id |-> id]
          /\ ret' = [threw |-> FALSE, value |-> findBookById(books, id)]
    /\ UNCHANGED <<session, dom, listeners, pc, pending, event, before>>

UtilsNext == CallFilterBooks \/ CallFindBookById

UtilsSpec == Init /\ [][UtilsNext]_vars

\* -------------------------------------------------------------- claims
\* every listener of the event on target t has run
Processed(t) == pc = "idle" /\ event.target = t /\ pending = <<>>

\* startup is over and no event is half processed
Settled == pc = "idle" /\ pending = <<>>

Max(a, b) == IF a > b THEN a ELSE b

remainingCount == Max(0, Len(matches) - page * booksPerPage)

\* C1: one click on the show-more button raises the page by exactly 1 and
\* appends exactly the one batch that follows the page shown before the click.
C1_ShowMoreAddsOnePage ==
    Processed("listButton") =>
        /\ page = before.page + 1
        /\ listItems = before.listItems \o
               Cards(Slice(matches, before.page * booksPerPage,
                           (before.page + 1) * booksPerPage))

\* C2: once startup is over and between events, the page is at least 1 and
\* the displayed list is the cards of matches[0 .. page*booksPerPage), in
\* order, each once.
C2_DisplayedIsWindow ==
    Settled =>
        /\ page >= 1
        /\ listItems = Cards(Slice(matches, 0, page * booksPerPage))

\* C3: a run of showMoreBooks that starts with nothing remaining changes
\* neither the page nor the displayed list.
C3_NoShowMoreWhenExhausted ==
    [][ ( /\ pending # <<>>
          /\ Head(pending) = "showMoreBooks"
          /\ Len(matches) - page * booksPerPage <= 0 )
        => (page' = page /\ listItems' = listItems) ]_vars

\* C4: after a search has been processed the page is 1 and matches is the
\* filter of all books by the submitted criteria, whatever came before.
C4_SearchResets ==
    Processed("searchForm") =>
        /\ page = 1
        /\ matches = filterBooks(books, event.filters).value

C4_Witness ==
    /\ Processed("searchForm")
    /\ before.page > 1
    /\ matches # books
    /\ matches # <<>>

\* C5: once startup is over and between events, the show-more button shows
\* max(0, matches.length - page*booksPerPage) and is disabled exactly when
\* that count is 0.
C5_AffordanceAgrees ==
    Settled =>
        /\ button.remaining = remainingCount
        /\ button.disabled <=> (remainingCount = 0)

C5_Witness ==
    /\ Processed("listButton")
    /\ before.page = 1
    /\ page > 1
    /\ button.disabled

\* C6: called with all three fields, filterBooks returns exactly the books
\* whose genres hold the genre (or genre 'any'), whose title holds the title
\* query whatever the case of the letters (or the query is blank), and whose
\* author is the author (or author 'any').
SameLetter(a, b) == a = b \/ {a, b} \in { {"d", "D"}, {"u", "U"} }

Blank(q) == \A i \in 1..Len(q) : q[i] = " "

ContainsIgnoringCase(t, q) ==
    \E k \in 0..(Len(t) - Len(q)) :
        \A j \in 1..Len(q) : SameLetter(t[k + j], q[j])

Satisfies(b, f) ==
    /\ (f.genre = "any" \/ f.genre \in {b.genres[i] : i \in 1..Len(b.genres)})
    /\ (Blank(f.title) \/ ContainsIgnoringCase(b.title, f.title))
    /\ (f.author = "any" \/ f.author = b.author)

C6_FilterExact ==
    (call.fn = "filterBooks" /\ DOMAIN call.filters = Fields) =>
        /\ ~ret.threw
        /\ LET Test(b) == Satisfies(b, call.filters)
           IN  ret.value = SelectSeq(books, Test)

C6_Witness ==
    /\ call.fn = "filterBooks"
    /\ call.filters = [title |-> <<"D", "U">>, author |-> "any", genre |-> "sf"]
    /\ Len(books) = 3
    /\ Len(ret.value) = 1

\* C7: matches is always a subsequence of books: its elements are books, in
\* the order books has them.
IsSubsequence(s, t) ==
    \E f \in [1..Len(s) -> 1..Len(t)] :
        /\ \A i \in 1..Len(s) : t[f[i]] = s[i]
        /\ \A i, j \in 1..Len(s) : i < j => f[i] < f[j]

C7_MatchesSubsequence == IsSubsequence(matches, books)

C7_Witness ==
    /\ Processed("searchForm")
    /\ Len(books) = 3
    /\ Len(matches) = 2
    /\ matches[1] = books[2]

\* C8: with any of the three fields absent, filterBooks raises no error and
\* returns what it returns with 'any' for the absent author or genre and the
\* empty string for the absent title.
WithDefaults(f) ==
    [title |-> IF Has(f, "title") THEN f.title ELSE <<>>,
     author |-> IF Has(f, "author") THEN f.author ELSE "any",
     genre |-> IF Has(f, "genre") THEN f.genre ELSE "any"]

C8_AbsentFieldsDefault ==
    call.fn = "filterBooks" =>
        /\ ~ret.threw
        /\ ret.value = filterBooks(books, WithDefaults(call.filters)).value

\* C9: findBookById returns the first book of the list with the id, also
\* when several books have it, and undefined when none has it.
C9_FindFirst ==
    call.fn = "findBookById" =>
        /\ ~ret.threw
        /\ LET hits == {i \in 1..Len(books) : books[i].id = call.id}
           IN  IF hits = {}
               THEN ret.value = <<>>
               ELSE ret.value = << books[CHOOSE i \in hits : \A j \in hits : i <= j] >>

C9_Witness ==
    /\ call.fn = "findBookById"
    /\ Cardinality({i \in 1..Len(books) : books[i].id = call.id}) = 2
    /\ ret.value # <<>>

\* C10: filterBooks with an empty title, author 'any' and genre 'any' returns
\* the whole list, for every list; a search with these criteria sets matches
\* to books.
C10_IdentityFilter ==
    /\ filterBooks(books, IdentityFilters) = [threw |-> FALSE, value |-> books]
    /\ (Processed("searchForm") /\ event.filters = IdentityFilters) => matches = books

C10_Witness ==
    /\ Processed("searchForm")
    /\ event.filters = IdentityFilters
    /\ Len(books) = 3
    /\ before.listItems # listItems

\* C11: after a search has been processed the empty-state message shows
\* exactly when matches is empty; a search without matches leaves the page
\* at 1, an empty displayed list and the show-more button disabled at 0.
C11_EmptyStateFlag ==
    Processed("searchForm") =>
        /\ messageShow <=> (Len(matches) = 0)
        /\ (Len(matches) = 0) =>
               /\ page = 1
               /\ listItems = <<>>
               /\ button = [disabled |-> TRUE, remaining |-> 0]

C11_Witness ==
    /\ Processed("searchForm")
    /\ matches = <<>>
    /\ messageShow
    /\ Len(books) = 3
    /\ before.page > 1

\* C12: from the dispatch of a card click to the return of its last
\* listener, for any id, books, booksPerPage, page, matches, the displayed
\* list and the show-more button do not change.
C12_CardClickFrame ==
    [][ (event'.target = "listItems")
        => UNCHANGED <<books, booksPerPage, page, matches, listItems, button>> ]_vars

C12_Witness ==
    /\ Processed("listItems")
    /\ event.preview = "2"
    /\ active.open
    /\ page > 1
    /\ Len(listItems) > 3

\* C13: from the dispatch of a theme submission to the return of its last
\* listener, for any theme, books, booksPerPage, page, matches and the
\* displayed list do not change.
C13_ThemeFrame ==
    [][ (event'.target = "settingsForm")
        => UNCHANGED <<books, booksPerPage, page, matches, listItems>> ]_vars

C13_Witness ==
    /\ Processed("settingsForm")
    /\ event.theme = "sepia"
    /\ theme = [value |-> "night", css |-> Light]
    /\ matches # books
    /\ listItems # <<>>

\* C14: a run of showBookPreview for an id no book has leaves the preview as
\* it was, closed or open, with its contents; for an id some book has it
\* opens the preview on the first such book.
HasId(id) == \E i \in 1..Len(books) : books[i].id = id

FirstWithId(id) ==
    books[CHOOSE i \in 1..Len(books) :
              books[i].id = id /\ \A j \in 1..(i - 1) : books[j].id # id]

C14_PreviewOnlyWhenFound ==
    [][ (pending # <<>> /\ Head(pending) = "showBookPreview")
        => IF HasId(event.preview)
           THEN active' = [open |-> TRUE,
                           book |-> << [title |-> FirstWithId(event.preview).title,
                                        subtitle |-> AuthorName(FirstWithId(event.preview).author)] >>]
           ELSE active' = active ]_vars

C14_Witness ==
    /\ Processed("listItems")
    /\ event.preview = "9"
    /\ books # <<>>
    /\ ~active.open
    /\ active.book = <<>>

\* C15: after a search has been processed the displayed list is the cards of
\* the first min(booksPerPage, matches.length) matches in order and nothing
\* else: the cards shown before are gone.
C15_SearchReplacesList ==
    Processed("searchForm") =>
        listItems = [i \in 1..Min(booksPerPage, Len(matches)) |-> createBookElement(matches[i])]

C15_Witness ==
    /\ Processed("searchForm")
    /\ Len(before.listItems) > booksPerPage
    /\ listItems # <<>>
    /\ \E i \in 1..Len(before.listItems) :
           \A j \in 1..Len(listItems) : before.listItems[i] # listItems[j]

\* C16: a run of handleSearch that follows a run of handleSearch with the
\* same criteria changes nothing: matches, page, the displayed list, the
\* empty-state flag and the show-more button stay as the first run left them.
C16_SearchIdempotent ==
    [][ ( /\ event.target = "searchForm"
          /\ pending # <<>>
          /\ Len(pending) < Len(listeners["searchForm"]) )
        => UNCHANGED <<matches, page, listItems, messageShow, button>> ]_vars

C16_Witness ==
    /\ Processed("searchForm")
    /\ Len(listeners["searchForm"]) > 1
    /\ matches = <<>>
    /\ before.page > 1

\* C17: after startup each dropdown holds one 'any' option followed by one
\* option per registry entry, and the search form, the show-more button, the
\* list and the settings form have one listener each.
OptionsOf(items, defaultOptionText) ==
    << [value |-> "any", text |-> defaultOptionText] >>
    \o [i \in 1..Len(items) |-> [value |-> items[i].id, text |-> items[i].name]]

C17_InitialisedOnce ==
    pc = "idle" =>
        /\ genreOptions = OptionsOf(genres, "All Genres")
        /\ authorOptions = OptionsOf(authors, "All Authors")
        /\ \A t \in {"searchForm", "listButton", "listItems", "settingsForm"} :
               Len(listeners[t]) = 1
====
